---- MODULE Spec2Model ----
(***************************************************************************)
(* The LRU/TTL cache of package store: the LRU wrapper (store/lru.go) over *)
(* its two internal engines, `core` (container/list + map, used by lru.go) *)
(* and `cache` (the variant with update, evict, clear and len).            *)
(*                                                                         *)
(* Public operations hold LRU.MU for their whole duration and are modelled *)
(* as one atomic step each.  The function a TTL timer runs,                *)
(* func() { c.load(r.Key) }, takes no lock: it is modelled statement by    *)
(* statement, its steps interleaving freely with the public operations.    *)
(***************************************************************************)
EXTENDS Integers, Sequences, FiniteSets

\* ------------------------------------------------------------ bounds
MaxOps     == 4   \* public operations per behaviour when TTL = 0
MaxOpsTTL  == 3   \* public operations per behaviour when TTL > 0
MaxTime    == 2   \* the clock runs over 0..MaxTime
MaxCap     == 2   \* MaxEntries is drawn from 0..MaxCap

Keys    == {"a", "b", "c"}
KeysTTL == {"a", "b"}  \* the keys the callers use when TTL > 0
Values  == {1, 2}
NoKey   == "-"
Nil     == 0          \* Go's nil interface value / nil *list.Element
NoRun   == <<NoKey>>
TTLs    == {0, 1}     \* 0: no expiry policy
Engines == {"core", "cache"}

VARIABLES
  engine,      \* which internal engine the LRU wraps: "core" or "cache"
  MaxEntries,  \* LRU.MaxEntries
  OnEvicted,   \* LRU.OnEvicted # nil
  TTL,         \* LRU.TTL
  c,           \* the engine (see NewEngine), with its pending timers and
               \* the calls made to the eviction callback so far
  threads,     \* timer functions that are running c.load(r.Key)
  now,         \* time.Now()
  last,        \* the most recent public operation and what it returned
  nops,        \* number of public operations performed
  storeRun     \* the keys stored so far while the callers have done nothing
               \* but Stores of fresh keys; NoRun afterwards

vars == <<engine, MaxEntries, OnEvicted, TTL, c, threads, now, last, nops,
          storeRun>>

\* ------------------------------------------------------------ container/list
\* The list is the sequence of its elements, front first.  An element whose
\* e.list is not this list (it was removed) is simply not in the sequence.
InList(l, e) == \E i \in 1..Len(l) : l[i] = e

ListRemove(l, e) == SelectSeq(l, LAMBDA x : x # e)

MoveToFront(l, e) == IF InList(l, e) THEN <<e>> \o ListRemove(l, e) ELSE l

PushBack(l, e) == Append(l, e)

Back(l) == IF Len(l) = 0 THEN Nil ELSE l[Len(l)]

Front(l) == IF Len(l) = 0 THEN Nil ELSE l[1]

\* ------------------------------------------------------------ engine state
\* s.ll      the list (core.ll, cache.list) as element ids, front first
\* s.cache   the map (core.cache, cache.items): key -> element id, Nil = absent
\* s.rec     element id -> record {Key, Value, Exp}
\* s.ttl, s.onEvicted   the engine's copies, set by LRU.set
\* s.timers  pending timers, each [rid, key, due]: r.timer of record rid
\* s.out     callback calls, each [key, val, id, by]
\* s.nextId  id of the next record allocated
NoRecords == [i \in {} |-> Nil]

NewEngine ==
  [ll |-> <<>>, cache |-> [k \in Keys |-> Nil], rec |-> NoRecords,
   ttl |-> 0, onEvicted |-> FALSE, timers |-> {}, out |-> <<>>, nextId |-> 1]

Call(s, e, by) ==
  [key |-> s.rec[e].Key, val |-> s.rec[e].Value, id |-> e, by |-> by]

\* r.timer.Stop(): a timer that has not fired yet never will
TimerStop(s, e) == [s EXCEPT !.timers = {t \in @ : t.rid # e}]


\* A record is dropped once nothing refers to its element any more: not the
\* list, not the map, not a running timer function.
Collect(s, ths) ==
  LET used == {s.ll[i] : i \in 1..Len(s.ll)} \cup {s.cache[k] : k \in Keys}
              \cup {t.e : t \in ths}
  IN  [s EXCEPT !.rec = [i \in (DOMAIN s.rec) \cap used |-> s.rec[i]]]

\* time.Now().UTC().After(r.Exp)
Expired(s, e) == now > s.rec[e].Exp

\* ------------------------------------------------------------ engine `core`
core_withTTL(s, e, ttl) ==
  LET s1 == TimerStop(s, e)
  IN  IF ttl > 0
      THEN [s1 EXCEPT
              !.timers = @ \cup {[rid |-> e, key |-> s.rec[e].Key,
                                  due |-> now + ttl]},
              !.rec[e].Exp = now + ttl]
      ELSE s1

\* the record a store allocates: &record{Key: key, Value: value}
NewRecord(s, key, value) ==
  [s EXCEPT
     !.rec = [i \in (DOMAIN s.rec) \cup {s.nextId} |->
                IF i = s.nextId THEN [Key |-> key, Value |-> value, Exp |-> 0]
                ELSE s.rec[i]],
     !.nextId = @ + 1]

core_store(s, key, value) ==
  IF s.cache[key] # Nil
  THEN LET e == s.cache[key]
       IN  [s |-> core_withTTL([s EXCEPT !.rec[e].Value = value], e, s.ttl),
            e |-> e]
  ELSE LET e  == s.nextId
           s1 == core_withTTL(NewRecord(s, key, value), e, s.ttl)
       IN  [s |-> [s1 EXCEPT !.ll = PushBack(@, e), !.cache[key] = e],
            e |-> e]

core_removeElement(s, e, by) ==
  LET s1 == [s EXCEPT !.ll = ListRemove(@, e), !.cache[s.rec[e].Key] = Nil]
  IN  IF s.onEvicted THEN [s1 EXCEPT !.out = Append(@, Call(s, e, by))]
      ELSE s1

core_load(s, key) ==
  IF s.cache[key] # Nil
  THEN LET e == s.cache[key]
       IN  IF s.ttl > 0 /\ Expired(s, e)
           THEN [s |-> core_removeElement(s, e, "lazy"), e |-> e, ok |-> TRUE,
                 err |-> "ErrCachedExp"]
           ELSE [s |-> s, e |-> e, ok |-> TRUE, err |-> "nil"]
  ELSE [s |-> s, e |-> Nil, ok |-> FALSE, err |-> "nil"]

core_delete(s, key) ==
  IF s.cache[key] # Nil THEN core_removeElement(s, s.cache[key], "delete")
  ELSE s

core_keys(s) == {k \in Keys : s.cache[k] # Nil}

\* ------------------------------------------------------------ engine `cache`
cache_withTTL(s, e, ttl) ==
  IF ttl > 0
  THEN [s EXCEPT
          !.timers = @ \cup {[rid |-> e, key |-> s.rec[e].Key,
                              due |-> now + ttl]},
          !.rec[e].Exp = now + ttl]
  ELSE s

cache_removeElement(s, e) ==
  [TimerStop(s, e) EXCEPT !.ll = ListRemove(@, e),
                          !.cache[s.rec[e].Key] = Nil]

cache_evict(s, e, by) ==
  LET s1 == cache_removeElement(s, e)
  IN  IF s.onEvicted THEN [s1 EXCEPT !.out = Append(@, Call(s, e, by))]
      ELSE s1

cache_store(s, key, value) ==
  LET s0 == IF s.cache[key] # Nil THEN cache_removeElement(s, s.cache[key])
            ELSE s
      e  == s0.nextId
      s1 == cache_withTTL(NewRecord(s0, key, value), e, s0.ttl)
  IN  [s |-> [s1 EXCEPT !.ll = PushBack(@, e), !.cache[key] = e], e |-> e]

\* (mutant) update storing the key anew: new record, new expiry, new timer
cache_update_Stores(s, key, value) ==
  IF s.cache[key] # Nil THEN cache_store(s, key, value).s ELSE s

cache_update(s, key, value) ==
  IF s.cache[key] # Nil THEN [s EXCEPT !.rec[s.cache[key]].Value = value]
  ELSE s

\* (mutant) load doing the promotion itself
cache_load_Promotes(s, key) ==
  IF s.cache[key] # Nil
  THEN LET e == s.cache[key]
       IN  IF s.ttl > 0 /\ Expired(s, e)
           THEN [s |-> cache_evict(s, e, "lazy"), e |-> e, ok |-> TRUE,
                 err |-> "ErrCachedExp"]
           ELSE [s |-> [s EXCEPT !.ll = MoveToFront(@, e)], e |-> e,
                 ok |-> TRUE, err |-> "nil"]
  ELSE [s |-> s, e |-> Nil, ok |-> FALSE, err |-> "nil"]

cache_load(s, key) ==
  IF s.cache[key] # Nil
  THEN LET e == s.cache[key]
       IN  IF s.ttl > 0 /\ Expired(s, e)
           THEN [s |-> cache_evict(s, e, "lazy"), e |-> e, ok |-> TRUE,
                 err |-> "ErrCachedExp"]
           ELSE [s |-> s, e |-> e, ok |-> TRUE, err |-> "nil"]
  ELSE [s |-> s, e |-> Nil, ok |-> FALSE, err |-> "nil"]

cache_delete(s, key) ==
  IF s.cache[key] # Nil THEN cache_evict(s, s.cache[key], "delete") ELSE s

cache_keys(s) == {k \in Keys : s.cache[k] # Nil}

cache_len(s) == Len(s.ll)

\* for _, e := range c.items { c.evict(e) }, visiting the keys in order `ks`
RECURSIVE cache_clearLoop(_, _)
cache_clearLoop(s, ks) ==
  IF ks = <<>> THEN s
  ELSE cache_clearLoop(cache_evict(s, s.cache[Head(ks)], "clear"), Tail(ks))

cache_clear(s, ks) == IF ~s.onEvicted THEN s ELSE cache_clearLoop(s, ks)

\* ------------------------------------------------------------ LRU (lru.go)
\* The orders in which a range over the map may visit its keys.
RangeOrders(s) ==
  LET ks == {k \in Keys : s.cache[k] # Nil}
      n  == Cardinality(ks)
  IN  {q \in [1..n -> ks] : \A i, j \in 1..n : i # j => q[i] # q[j]}

set(s) == [s EXCEPT !.onEvicted = OnEvicted, !.ttl = TTL]

\* LRU.removeOldest.  Over `cache`, whose removeElement makes no callback,
\* the removal is cache.evict.
\* (mutant) removeOldest taking the front of the list instead of the back
removeOldest_Front(s, by) ==
  LET ele == Front(s.ll)
  IN  IF ele = Nil THEN s
      ELSE IF engine = "core" THEN core_removeElement(s, ele, by)
      ELSE cache_evict(s, ele, by)

\* (mutant) removeOldest unlinking the element and nothing more
removeOldest_Unlinks(s, by) ==
  LET ele == Back(s.ll)
  IN  IF ele = Nil THEN s ELSE [s EXCEPT !.ll = ListRemove(@, ele)]

removeOldest(s, by) ==
  LET ele == Back(s.ll)
  IN  IF ele = Nil THEN s
      ELSE IF engine = "core" THEN core_removeElement(s, ele, by)
      ELSE cache_evict(s, ele, by)

\* (mutant) Store comparing the length with MaxEntries + 1
LRU_Store_OffByOne(s, key, value) ==
  LET s0 == set(s)
      r  == IF engine = "core" THEN core_store(s0, key, value)
            ELSE cache_store(s0, key, value)
      s1 == [r.s EXCEPT !.ll = MoveToFront(@, r.e)]
  IN  IF MaxEntries # 0 /\ Len(s1.ll) > MaxEntries + 1
      THEN removeOldest(s1, "capacity")
      ELSE s1

LRU_Store(s, key, value) ==
  LET s0 == set(s)
      r  == IF engine = "core" THEN core_store(s0, key, value)
            ELSE cache_store(s0, key, value)
      s1 == [r.s EXCEPT !.ll = MoveToFront(@, r.e)]
  IN  IF MaxEntries # 0 /\ Len(s1.ll) > MaxEntries
      THEN removeOldest(s1, "capacity")
      ELSE s1

\* (mutant) Load without the MoveToFront
LRU_Load_NoPromote(s, key) ==
  LET r == IF engine = "core" THEN core_load(s, key) ELSE cache_load(s, key)
  IN  IF r.ok /\ r.err = "nil"
      THEN [s |-> r.s, ret |-> r.s.rec[r.e].Value, found |-> r.ok,
            err |-> r.err]
      ELSE [s |-> r.s, ret |-> Nil, found |-> r.ok, err |-> r.err]

LRU_Load(s, key) ==
  LET r == IF engine = "core" THEN core_load(s, key) ELSE cache_load(s, key)
  IN  IF r.ok /\ r.err = "nil"
      THEN [s |-> [r.s EXCEPT !.ll = MoveToFront(@, r.e)],
            ret |-> r.s.rec[r.e].Value, found |-> r.ok, err |-> r.err]
      ELSE [s |-> r.s, ret |-> Nil, found |-> r.ok, err |-> r.err]

\* Peek: the lookup and expiry of Load, without the MoveToFront
LRU_Peek(s, key) ==
  LET r == cache_load(s, key)
  IN  IF r.ok /\ r.err = "nil"
      THEN [s |-> r.s, ret |-> r.s.rec[r.e].Value, found |-> r.ok,
            err |-> r.err]
      ELSE [s |-> r.s, ret |-> Nil, found |-> r.ok, err |-> r.err]

LRU_Update(s, key, value) == cache_update(s, key, value)

\* (mutant) Delete removing the oldest entry instead of the one of the key
LRU_Delete_Oldest(s, key) ==
  IF s.cache[key] # Nil THEN removeOldest(s, "delete") ELSE s

LRU_Delete(s, key) ==
  IF engine = "core" THEN core_delete(s, key) ELSE cache_delete(s, key)

RECURSIVE LRU_ClearLoop(_, _)
LRU_ClearLoop(s, ks) ==
  IF ks = <<>> THEN s
  ELSE LRU_ClearLoop([s EXCEPT !.out = Append(@, Call(s, s.cache[Head(ks)],
                                                      "clear"))], Tail(ks))

\* LRU.Clear; over `cache` it is cache.clear.
\* (mutant) Clear on `core` without the loop that calls the callback
LRU_Clear_Silent(s, ks) == IF engine = "core" THEN s ELSE cache_clear(s, ks)

LRU_Clear(s, ks) ==
  IF engine = "core"
  THEN IF OnEvicted THEN LRU_ClearLoop(s, ks) ELSE s
  ELSE cache_clear(s, ks)

LRU_Len(s) == Len(s.ll)

LRU_Keys(s) == IF engine = "core" THEN core_keys(s) ELSE cache_keys(s)

\* ------------------------------------------------------------ the system
OpBound == IF TTL = 0 THEN MaxOps ELSE MaxOpsTTL

OpKeys == IF TTL = 0 THEN Keys ELSE KeysTTL

Returned(op, key, val, ret, found, err) ==
  [op |-> op, key |-> key, val |-> val, ret |-> ret, found |-> found,
   err |-> err, at |-> now]

Init ==
  /\ engine \in Engines
  /\ MaxEntries \in 0..MaxCap
  /\ OnEvicted \in BOOLEAN
  /\ TTL \in TTLs
  /\ c = NewEngine
  /\ threads = {}
  /\ now = 0
  /\ last = Returned("New", NoKey, Nil, Nil, FALSE, "nil")
  /\ nops = 0
  /\ storeRun = <<>>

Config == <<engine, MaxEntries, OnEvicted, TTL>>

Store(key, value) ==
  /\ nops < OpBound
  /\ c' = Collect(LRU_Store(c, key, value), threads)
  /\ last' = Returned("Store", key, value, Nil, FALSE, "nil")
  /\ nops' = nops + 1
  /\ storeRun' = IF storeRun # NoRun /\ ~InList(storeRun, key)
                 THEN Append(storeRun, key) ELSE NoRun
  /\ UNCHANGED <<Config, threads, now>>

Load(key) ==
  /\ nops < OpBound
  /\ LET r == LRU_Load(c, key)
     IN  /\ c' = Collect(r.s, threads)
         /\ last' = Returned("Load", key, Nil, r.ret, r.found, r.err)
  /\ nops' = nops + 1
  /\ storeRun' = NoRun
  /\ UNCHANGED <<Config, threads, now>>

Peek(key) ==
  /\ nops < OpBound
  /\ engine = "cache"
  /\ LET r == LRU_Peek(c, key)
     IN  /\ c' = Collect(r.s, threads)
         /\ last' = Returned("Peek", key, Nil, r.ret, r.found, r.err)
  /\ nops' = nops + 1
  /\ storeRun' = NoRun
  /\ UNCHANGED <<Config, threads, now>>

Update(key, value) ==
  /\ nops < OpBound
  /\ engine = "cache"
  /\ c' = Collect(LRU_Update(c, key, value), threads)
  /\ last' = Returned("Update", key, value, Nil, FALSE, "nil")
  /\ nops' = nops + 1
  /\ storeRun' = NoRun
  /\ UNCHANGED <<Config, threads, now>>

Delete(key) ==
  /\ nops < OpBound
  /\ c' = Collect(LRU_Delete(c, key), threads)
  /\ last' = Returned("Delete", key, Nil, Nil, FALSE, "nil")
  /\ nops' = nops + 1
  /\ storeRun' = NoRun
  /\ UNCHANGED <<Config, threads, now>>

RemoveOldest ==
  /\ nops < OpBound
  /\ c' = Collect(removeOldest(c, "oldest"), threads)
  /\ last' = Returned("RemoveOldest", NoKey, Nil, Nil, FALSE, "nil")
  /\ nops' = nops + 1
  /\ storeRun' = NoRun
  /\ UNCHANGED <<Config, threads, now>>

Clear ==
  /\ nops < OpBound
  /\ \E ks \in RangeOrders(c) : c' = Collect(LRU_Clear(c, ks), threads)
  /\ last' = Returned("Clear", NoKey, Nil, Nil, FALSE, "nil")
  /\ nops' = nops + 1
  /\ storeRun' = NoRun
  /\ UNCHANGED <<Config, threads, now>>

\* Time passes.  The clock is read only by withTTL and load, and by both
\* only when a TTL is configured.
Tick ==
  /\ TTL > 0
  /\ now < MaxTime
  /\ now' = now + 1
  /\ UNCHANGED <<Config, c, threads, last, nops, storeRun>>

\* ---- the function of a timer: func() { c.load(r.Key) }, without the lock
Thread(t, pc, e) ==
  [rid |-> t.rid, due |-> t.due, key |-> t.key, pc |-> pc, e |-> e]

\* the runtime starts the function once the duration has elapsed
TimerFire(t) ==
  /\ t \in c.timers
  /\ now >= t.due
  /\ c' = [c EXCEPT !.timers = @ \ {t}]
  /\ threads' = threads \cup {Thread(t, "lookup", Nil)}
  /\ UNCHANGED <<Config, now, last, nops, storeRun>>

\* e, ok := c.cache[key]
TimerLookup(t) ==
  /\ t \in threads /\ t.pc = "lookup"
  /\ threads' = IF c.cache[t.key] = Nil THEN threads \ {t}
                ELSE (threads \ {t}) \cup {Thread(t, "check", c.cache[t.key])}
  /\ c' = Collect(c, threads')
  /\ UNCHANGED <<Config, now, last, nops, storeRun>>

\* if c.ttl > 0 { if time.Now().UTC().After(r.Exp) {
TimerCheck(t) ==
  /\ t \in threads /\ t.pc = "check"
  /\ threads' = IF c.ttl > 0 /\ Expired(c, t.e)
                THEN (threads \ {t}) \cup {Thread(t, "remove", t.e)}
                ELSE threads \ {t}
  /\ c' = Collect(c, threads')
  /\ UNCHANGED <<Config, now, last, nops, storeRun>>

\* c.ll.Remove(e)
TimerRemove(t) ==
  /\ t \in threads /\ t.pc = "remove"
  /\ threads' = (threads \ {t}) \cup {Thread(t, "delete", t.e)}
  /\ c' = [c EXCEPT !.ll = ListRemove(@, t.e)]
  /\ UNCHANGED <<Config, now, last, nops, storeRun>>

\* delete(c.cache, kv.Key); in `cache`, r.timer.Stop() comes just before it
TimerDelete(t) ==
  /\ t \in threads /\ t.pc = "delete"
  /\ threads' = (threads \ {t}) \cup {Thread(t, "notify", t.e)}
  /\ c' = [(IF engine = "core" THEN c ELSE TimerStop(c, t.e))
             EXCEPT !.cache[c.rec[t.e].Key] = Nil]
  /\ UNCHANGED <<Config, now, last, nops, storeRun>>

\* if c.onEvicted != nil { c.onEvicted(kv.Key, kv.Value) }
TimerNotify(t) ==
  /\ t \in threads /\ t.pc = "notify"
  /\ threads' = threads \ {t}
  /\ c' = Collect(IF c.onEvicted
                  THEN [c EXCEPT !.out = Append(@, Call(c, t.e, "timer"))]
                  ELSE c, threads')
  /\ UNCHANGED <<Config, now, last, nops, storeRun>>

Next ==
  \/ \E key \in OpKeys, value \in Values : Store(key, value)
  \/ \E key \in OpKeys : Load(key)
  \/ \E key \in OpKeys : Peek(key)
  \/ \E key \in OpKeys, value \in Values : Update(key, value)
  \/ \E key \in OpKeys : Delete(key)
  \/ RemoveOldest
  \/ Clear
  \/ Tick
  \/ \E t \in c.timers : TimerFire(t)
  \/ \E t \in threads : TimerLookup(t)
  \/ \E t \in threads : TimerCheck(t)
  \/ \E t \in threads : TimerRemove(t)
  \/ \E t \in threads : TimerDelete(t)
  \/ \E t \in threads : TimerNotify(t)

Spec == Init /\ [][Next]_vars

\* ------------------------------------------------------------ vocabulary
\* the calls of the eviction callback made by the step from c to c'
Fired == SubSeq(c'.out, Len(c.out) + 1, Len(c'.out))

\* the step is public operation op returning
Does(op) == nops' = nops + 1 /\ last'.op = op

\* key is live: indexed, and its element is in the recency order
Live(s, key) == s.cache[key] # Nil /\ InList(s.ll, s.cache[key])

Entry(s, e) == [key |-> s.rec[e].Key, val |-> s.rec[e].Value]

KeysOfCalls(q) == [i \in 1..Len(q) |-> q[i].key]

\* ------------------------------------------------------------ claims
\* C1: with MaxEntries = N > 0, Len() is at most N after every public
\* operation returns (and in every state in between).
C1_LenAtMostCapacity == MaxEntries > 0 => LRU_Len(c) <= MaxEntries

C1_Witness ==
  /\ MaxEntries > 0 /\ last.op = "Store" /\ LRU_Len(c) = MaxEntries
  /\ \E i \in 1..Len(c.out) : c.out[i].by = "capacity"

\* the callers have stored Len(storeRun) distinct keys into the empty
\* cache and done nothing else, and no timer function is running
OnlyStores == storeRun # NoRun /\ MaxEntries > 0 /\ OnEvicted /\ threads = {}

\* the callback was called for the first k keys stored, in that order, and
\* the last N keys stored are the live ones
FirstStoredEvicted ==
  LET n == Len(storeRun)
      k == IF n > MaxEntries THEN n - MaxEntries ELSE 0
  IN  /\ KeysOfCalls(c.out) = SubSeq(storeRun, 1, k)
      /\ LRU_Len(c) = n - k
      /\ LRU_Keys(c) = {storeRun[i] : i \in (k + 1)..n}
      /\ \A i \in (k + 1)..n : Live(c, storeRun[i])

NoExpiry == \A i \in 1..Len(c.out) : c.out[i].by # "timer"

\* C2 (as stated): N+k distinct keys stored into an empty capacity-N cache
\* with no intervening reads: the callback has been called exactly k times,
\* for the first k keys stored, in that order, and the last N keys stored
\* are the live ones.
C2_Original == OnlyStores => FirstStoredEvicted

\* C2 (amended): the same, provided no timer function has expired an entry
\* in the meantime.
C2_EvictsFirstStored == (OnlyStores /\ NoExpiry) => FirstStoredEvicted

C2_Witness == OnlyStores /\ NoExpiry /\ Len(storeRun) >= MaxEntries + 2

\* a Store of a key that is not indexed, into a cache whose length is its
\* capacity
Overflows(key) ==
  /\ Does("Store") /\ last'.key = key
  /\ c.cache[key] = Nil /\ MaxEntries > 0 /\ LRU_Len(c) = MaxEntries

Unexpired(s, key) == TTL = 0 \/ ~Expired(s, s.cache[key])

\* a successful Load of a live, unexpired entry returns its value and moves
\* the entry to the front of the recency order, the others keeping theirs
LoadMovesToFront ==
  \A key \in Keys :
     (Does("Load") /\ last'.key = key /\ Live(c, key) /\ Unexpired(c, key)) =>
        /\ last'.found /\ last'.err = "nil"
        /\ last'.ret = c.rec[c.cache[key]].Value
        /\ c'.ll = <<c.cache[key]>> \o ListRemove(c.ll, c.cache[key])

\* the callers' last operation was a successful Load of a key that is live
Loaded == last.op = "Load" /\ last.found /\ last.err = "nil" /\ Live(c, last.key)

\* the entry at the back is evicted, it is not the loaded one, which stays
EvictsAnother ==
  /\ Back(c.ll) # c.cache[last.key]
  /\ ~InList(c'.ll, Back(c.ll))
  /\ OnEvicted => KeysOfCalls(Fired) = <<c.rec[Back(c.ll)].Key>>
  /\ Live(c', last.key)

C4_PeekKeepsOrder ==
  [][ /\ \A key \in Keys :
           (Does("Peek") /\ last'.key = key /\ Live(c, key)
              /\ Unexpired(c, key)) =>
             /\ last'.found /\ last'.err = "nil"
             /\ last'.ret = c.rec[c.cache[key]].Value
             /\ c'.ll = c.ll
             /\ c'.cache = c.cache
      /\ \A key \in Keys :
           (/\ last.op = "Peek" /\ last.found /\ last.err = "nil"
            /\ Overflows(key)) =>
             /\ ~InList(c'.ll, Back(c.ll))
             /\ OnEvicted => KeysOfCalls(Fired) = <<c.rec[Back(c.ll)].Key>>
    ]_vars

\* Store a, Store b, Peek a, Store c on a capacity-2 cache: a was evicted
C4_Witness ==
  /\ MaxEntries = 2 /\ OnEvicted /\ nops = 4 /\ last.op = "Store"
  /\ last.key = "c" /\ Live(c, "b") /\ Live(c, "c") /\ ~Live(c, "a")
  /\ KeysOfCalls(c.out) = <<"a">>

\* C5: after Clear() returns the cache holds nothing: Len() = 0 and Keys()
\* is empty, with or without an eviction callback.
C5_ClearEmpties ==
  last.op = "Clear" => (LRU_Len(c) = 0 /\ LRU_Keys(c) = {})

ElemsOf(l) == {l[i] : i \in 1..Len(l)}

CallsAsEntries(q) == {[key |-> q[i].key, val |-> q[i].val] : i \in 1..Len(q)}

\* C6: with a callback configured, one Clear() calls the callback once for
\* each live key (each key Keys() returns), with its current value, and for
\* no other key: m calls for m live keys, and m is Len() whenever the index
\* and the recency order hold the same entries.
C6_ClearCallsOncePerEntry ==
  [][ (Does("Clear") /\ OnEvicted) =>
        /\ Len(Fired) = Cardinality(LRU_Keys(c))
        /\ CallsAsEntries(Fired) = {Entry(c, c.cache[k]) : k \in LRU_Keys(c)}
        /\ \A i, j \in 1..Len(Fired) : i # j => Fired[i].key # Fired[j].key
        /\ (\A k \in LRU_Keys(c) : Live(c, k)) /\ (\A e \in ElemsOf(c.ll) :
              c.cache[c.rec[e].Key] = e) => Len(Fired) = LRU_Len(c)
    ]_vars

C6_Witness ==
  /\ OnEvicted /\ last.op = "Clear" /\ nops = 4 /\ Len(c.out) = 3
  /\ \A i \in 1..3 : c.out[i].by = "clear"

\* C7: the callback is called exactly once for each entry that leaves the
\* cache, with its key and current value: a call is never for an entry that
\* is still live once the step that makes the call is over, never a second
\* call for the same entry, and an entry a public operation removes (other
\* than a Store replacing its own key) gets its call in that operation.
C7_CallbackOncePerRemoval ==
  [][ /\ \A i \in 1..Len(Fired) :
           /\ ~InList(c'.ll, Fired[i].id)
           /\ c'.cache[Fired[i].key] # Fired[i].id
           /\ \A j \in 1..Len(c.out) : c.out[j].id # Fired[i].id
           /\ \A j \in 1..Len(Fired) : i # j => Fired[j].id # Fired[i].id
           /\ Fired[i].id \in DOMAIN c.rec
           /\ Fired[i].val = c.rec[Fired[i].id].Value
      /\ (nops' = nops + 1 /\ c.onEvicted) =>
           \A e \in ElemsOf(c.ll) \ ElemsOf(c'.ll) :
              \/ \E i \in 1..Len(Fired) : Fired[i].id = e
              \/ last'.op = "Store" /\ last'.key = c.rec[e].Key
    ]_vars

\* C8: with a TTL, an expired entry that a Load or Peek and the timer
\* function both set out to expire gets exactly one call of the callback.
C8_ExpiryCallsOnce ==
  \A i, j \in 1..Len(c.out) :
     (i # j /\ c.out[i].id = c.out[j].id) =>
        ~({c.out[i].by, c.out[j].by} = {"lazy", "timer"})

\* C9: Load of a present but expired entry removes it, calls the callback
\* for it and returns (nil, found = false) with ErrCachedExp; the Load of
\* that key that follows returns not-found without ErrCachedExp.
C9_ExpiredLoad ==
  [][ \A key \in Keys :
        /\ (/\ Does("Load") /\ last'.key = key
            /\ Live(c, key) /\ c.ttl > 0 /\ Expired(c, c.cache[key])) =>
              /\ ~Live(c', key) /\ c'.cache[key] = Nil
              /\ c.onEvicted => KeysOfCalls(Fired) = <<key>>
              /\ last'.ret = Nil /\ ~last'.found
              /\ last'.err = "ErrCachedExp"
        /\ (/\ last.op = "Load" /\ last.key = key
            /\ last.err = "ErrCachedExp"
            /\ Does("Load") /\ last'.key = key /\ c.cache[key] = Nil) =>
              /\ last'.ret = Nil /\ ~last'.found /\ last'.err = "nil"
    ]_vars

\* C10: after Store(key, value) returned, on a cache of capacity >= 1 or
\* unbounded, the caller's next operation being Load(key) before the TTL
\* has elapsed, that Load returns (value, found = true) and no error.
C10_StoreThenLoad ==
  [][ (/\ last.op = "Store" /\ last.err = "nil"
       /\ Does("Load") /\ last'.key = last.key
       /\ (TTL = 0 \/ now <= last.at + TTL)) =>
         /\ last'.found /\ last'.err = "nil" /\ last'.ret = last.val
    ]_vars

\* a Load of key issued now would return (v, found = true) and no error
WouldLoad(key, v) ==
  LET r == LRU_Load(c, key)
  IN  r.found /\ r.err = "nil" /\ r.ret = v

\* the step changes nothing of the cache and calls no callback
NothingChanges == c'.ll = c.ll /\ c'.cache = c.cache /\ Fired = <<>>

\* C11: Update(key, value) on an absent key changes nothing (Len the same,
\* the key still absent, no callback) and returns no error; on a live key it
\* changes neither Len nor the callback's calls, returns no error, and
\* makes the value what a Load of the key returns: right away when the
\* entry has not expired, and for as long as the caller has not made
\* another operation and the entry has still not expired.
C11_UpdateReplaces ==
  [][ /\ \A key \in Keys :
           (Does("Update") /\ last'.key = key /\ c.cache[key] = Nil) =>
              /\ NothingChanges /\ LRU_Len(c') = LRU_Len(c)
              /\ c'.cache[key] = Nil /\ last'.err = "nil"
      /\ \A key \in Keys, value \in Values :
           (/\ Does("Update") /\ last'.key = key /\ last'.val = value
            /\ Live(c, key)) =>
              /\ LRU_Len(c') = LRU_Len(c) /\ Fired = <<>>
              /\ last'.err = "nil"
              /\ Unexpired(c, key) => WouldLoad(key, value)'
      /\ (/\ last.op = "Update" /\ nops' = nops
          /\ WouldLoad(last.key, last.val)
          /\ now' <= c.rec[c.cache[last.key]].Exp \/ TTL = 0) =>
             WouldLoad(last.key, last.val)'
    ]_vars

\* a Load of key issued now would return (nil, found = false) and no error
WouldMiss(key) ==
  LET r == LRU_Load(c, key)
  IN  ~r.found /\ r.err = "nil" /\ r.ret = Nil

\* every entry but the one of key is what and where it was
OthersUntouched(key) ==
  /\ c'.ll = ListRemove(c.ll, c.cache[key])
  /\ \A k \in Keys \ {key} : c'.cache[k] = c.cache[k]
  /\ \A e \in ElemsOf(c'.ll) : c'.rec[e] = c.rec[e]

\* C12: Delete(key) of an absent key changes nothing, calls no callback and
\* returns no error, each time it is called; Delete of a live key takes 1
\* off Len, calls the callback (when there is one) exactly once, with that
\* key and its value, leaves every other entry and their order as they
\* were, and a Load of the key that follows returns not-found.
C12_DeleteRemoves ==
  [][ /\ \A key \in Keys :
           (Does("Delete") /\ last'.key = key /\ c.cache[key] = Nil) =>
              /\ NothingChanges /\ LRU_Len(c') = LRU_Len(c)
              /\ last'.err = "nil"
      /\ \A key \in Keys :
           (Does("Delete") /\ last'.key = key /\ Live(c, key)) =>
              /\ LRU_Len(c') = LRU_Len(c) - 1
              /\ last'.err = "nil"
              /\ Fired = IF OnEvicted
                         THEN <<Call(c, c.cache[key], "delete")>> ELSE <<>>
              /\ OnEvicted => Fired[1].key = key
              /\ OthersUntouched(key)
              /\ c'.cache[key] = Nil
              /\ WouldMiss(key)'
      /\ (last.op = "Delete" /\ nops' = nops /\ WouldMiss(last.key)) =>
            WouldMiss(last.key)'
    ]_vars

\* Store a, Store b, Delete a, Delete a with a callback: one call, for a
C12_Witness ==
  /\ OnEvicted /\ nops = 4 /\ last.op = "Delete" /\ last.key = "a"
  /\ KeysOfCalls(c.out) = <<"a">> /\ c.out[1].by = "delete"
  /\ LRU_Len(c) = 1 /\ Live(c, "b") /\ WouldMiss("a")

\* C13: RemoveOldest() on a cache that is not empty removes the entry at the
\* back of the recency order and no other: Len goes down by 1, the rest of
\* the order and of the index stay, and the callback (when there is one) is
\* called once, for that entry; on an empty cache it changes nothing.
C13_RemoveOldest ==
  [][ /\ (Does("RemoveOldest") /\ LRU_Len(c) > 0) =>
           LET e == Back(c.ll)
           IN  /\ LRU_Len(c') = LRU_Len(c) - 1
               /\ c'.ll = SubSeq(c.ll, 1, Len(c.ll) - 1)
               /\ c'.cache = [c.cache EXCEPT ![c.rec[e].Key] = Nil]
               /\ \A x \in ElemsOf(c'.ll) : c'.rec[x] = c.rec[x]
               /\ Fired = IF OnEvicted THEN <<Call(c, e, "oldest")>>
                          ELSE <<>>
      /\ (Does("RemoveOldest") /\ LRU_Len(c) = 0) => NothingChanges
    ]_vars

\* Store a, Store b, Load a, RemoveOldest with a callback: b is removed
C13_Witness ==
  /\ OnEvicted /\ nops = 4 /\ last.op = "RemoveOldest"
  /\ KeysOfCalls(c.out) = <<"b">> /\ c.out[1].by = "oldest"
  /\ LRU_Len(c) = 1 /\ Live(c, "a") /\ c.cache["b"] = Nil

\* the timer functions that are inside the structure: they have read the
\* index and have not yet finished with the element they found
Inside == {t \in threads : t.pc # "lookup"}

\* C14: a timer function touches the recency order and the index only under
\* the lock of the public operations: no public operation runs while a
\* timer function is inside the structure, and no two timer functions are
\* inside it together.
C14_TriggersHoldLock ==
  [][ /\ nops' = nops + 1 => Inside = {}
      /\ Cardinality(Inside) <= 1
    ]_vars

\* the step is one of a timer function (no caller acts, no time passes)
TimerStep == nops' = nops /\ now' = now

\* element e holds an entry whose TTL has elapsed
Stale(e) == c.ttl > 0 /\ Expired(c, e)

\* C15: a timer function whose key was deleted or stored again in the
\* meantime does nothing: whatever the interleaving with Store and Delete,
\* its steps never unlink an entry whose TTL has not elapsed, never take
\* such an entry's key out of the index, never call the callback for it,
\* and never make a value that Load would return unreachable.
C15_StaleTriggerBenign ==
  [][ TimerStep =>
        /\ \A e \in ElemsOf(c.ll) \ ElemsOf(c'.ll) : Stale(e)
        /\ \A k \in Keys :
             (c.cache[k] # Nil /\ c'.cache[k] = Nil) => Stale(c.cache[k])
        /\ \A i \in 1..Len(Fired) : Stale(Fired[i].id)
        /\ \A k \in Keys, v \in Values : WouldLoad(k, v) => WouldLoad(k, v)'
    ]_vars

\* the index and the recency order hold the same entries
Consistent ==
  /\ \A k \in Keys : c.cache[k] # Nil =>
        Cardinality({i \in 1..Len(c.ll) : c.ll[i] = c.cache[k]}) = 1
  /\ \A i \in 1..Len(c.ll) : c.cache[c.rec[c.ll[i]].Key] = c.ll[i]
  /\ LRU_Len(c) = Cardinality(LRU_Keys(c))
  /\ LRU_Keys(c) = {k \in Keys : Live(c, k)}

\* C16: whenever no timer function is half-way through a removal, and so
\* in every state a caller can observe under the lock, every indexed key has
\* exactly one node in the recency order, every node is indexed under its
\* key, Len() is the number of keys Keys() returns and Keys() is the set of
\* live keys.
C16_IndexMatchesOrder == Inside = {} => Consistent

\* the step is a Load or a Peek of key
Reads(key) == (Does("Load") \/ Does("Peek")) /\ last'.key = key

\* the read found the entry expired: it reports ErrCachedExp, returns no
\* value and the entry is gone
TreatedAsExpired(key) ==
  last'.err = "ErrCachedExp" /\ last'.ret = Nil /\ c'.cache[key] = Nil

\* the read found the entry live: it returns its value and no error
TreatedAsLive(key) ==
  /\ last'.err = "nil" /\ last'.found
  /\ last'.ret = c.rec[c.cache[key]].Value /\ c'.cache[key] = c.cache[key]

\* C17: with TTL = d > 0 a Store at time t0 sets the entry's expiry to
\* t0 + d, and a Load or Peek of the entry at time t treats it as expired
\* when t >= t0 + d, the instant t0 + d included, and as live when
\* t < t0 + d.
C17_ExpiresAtDeadline ==
  [][ \A key \in Keys :
        /\ (/\ Does("Store") /\ last'.key = key /\ TTL > 0
            /\ c'.cache[key] # Nil) =>
              c'.rec[c'.cache[key]].Exp = now + TTL
        /\ (Reads(key) /\ TTL > 0 /\ Live(c, key)) =>
              IF now >= c.rec[c.cache[key]].Exp THEN TreatedAsExpired(key)
              ELSE TreatedAsLive(key)
    ]_vars

\* ------------------------------------------------------------ progress
\* Time goes on and the runtime runs every timer function it has started
\* or has to start; the callers are free to stop at any point.
Fairness ==
  /\ WF_vars(Tick)
  /\ WF_vars(\E t \in c.timers : TimerFire(t))
  /\ WF_vars(\E t \in threads : TimerLookup(t))
  /\ WF_vars(\E t \in threads : TimerCheck(t))
  /\ WF_vars(\E t \in threads : TimerRemove(t))
  /\ WF_vars(\E t \in threads : TimerDelete(t))
  /\ WF_vars(\E t \in threads : TimerNotify(t))

InitTTL == Init /\ TTL > 0 /\ OnEvicted

SpecTTL == InitTTL /\ [][Next]_vars /\ Fairness

\* key holds an entry whose TTL elapses within the time the clock covers
LiveDue(key) == Live(c, key) /\ c.rec[c.cache[key]].Exp < MaxTime

\* C18: with a TTL, an entry that no caller accesses, refreshes or deletes
\* any more does not stay live for ever: once its TTL has elapsed its timer
\* function removes it.  (The callers make finitely many operations, so an
\* entry that is live from some point on is one they have stopped touching.)
C18_EventuallyExpired == \A key \in Keys : []<>(~LiveDue(key))

\* C19: Update(key, value) of a live key changes the value of that entry
\* and nothing else: the recency order (the entry at the back with it), the
\* index, the entry's expiry time and the pending timers are what they
\* were, and every other record is untouched.
C19_UpdateInPlace ==
  [][ \A key \in Keys, value \in Values :
        (/\ Does("Update") /\ last'.key = key /\ last'.val = value
         /\ Live(c, key)) =>
           /\ c'.ll = c.ll /\ Back(c'.ll) = Back(c.ll)
           /\ c'.cache = c.cache
           /\ c'.rec = [c.rec EXCEPT ![c.cache[key]].Value = value]
           /\ c'.rec[c.cache[key]].Exp = c.rec[c.cache[key]].Exp
           /\ c'.timers = c.timers
    ]_vars

\* with a TTL: Store a, Store b, Update a; a is still at the back with its
\* timer pending and the expiry of its Store
C19_Witness ==
  /\ TTL > 0 /\ nops = 3 /\ last.op = "Update" /\ last.key = "a"
  /\ Live(c, "a") /\ Live(c, "b") /\ Back(c.ll) = c.cache["a"]
  /\ c.rec[c.cache["a"]].Value = last.val
  /\ now > 0 /\ c.rec[c.cache["a"]].Exp = TTL
  /\ \E t \in c.timers : t.rid = c.cache["a"] /\ t.due = TTL

\* the timers pending for key in engine state s
TimersOf(s, key) == {t \in s.timers : t.key = key}

\* C20: Store(key, value) of a key that is live replaces the value, moves
\* the entry to the front of the recency order and, with a TTL, sets its
\* expiry to now + ttl and leaves exactly one timer pending for the key,
\* the one it has just armed; Len is the same, every other entry stays
\* where it was and the callback is not called.  Stated of the Store a
\* caller can issue in any reachable state.
C20_StoreRefreshes ==
  \A key \in OpKeys, value \in Values :
     Live(c, key) =>
       LET s == LRU_Store(c, key, value)
           e == s.cache[key]
       IN  /\ e # Nil /\ s.ll # <<>> /\ s.ll[1] = e
           /\ s.rec[e].Value = value
           /\ TTL > 0 => s.rec[e].Exp = now + TTL
           /\ TTL > 0 => TimersOf(s, key) =
                           {[rid |-> e, key |-> key, due |-> now + TTL]}
           /\ Len(s.ll) = Len(c.ll)
           /\ \A k \in Keys \ {key} : s.cache[k] = c.cache[k]
           /\ ListRemove(s.ll, e) = ListRemove(c.ll, c.cache[key])
           /\ s.out = c.out

====
